---------------------------- MODULE Spec2Model ----------------------------
(***************************************************************************)
(* Trading signal bridge: TradeSignal validation, the SignalManager store  *)
(* (pending queue, history, dedup set) and the MQL5Bridge request loop.    *)
(*                                                                         *)
(* Prices and lot sizes are integers (a fixed-point scale of the floats).  *)
(* Optional values are None (the empty tuple) or Some(x) (a 1-tuple).      *)
(* An action string is a sequence of one-character strings, so that        *)
(* str.upper() is computed character by character.                         *)
(***************************************************************************)
EXTENDS Integers, Sequences, FiniteSets, TLC

(***************************************************************************)
(* Bounds of the model.                                                    *)
(***************************************************************************)
MaxId == 2
MaxQueueSize == 2
MaxHistory == 2
MaxCount == 2
MaxPrice == 2
MaxErrors == 2
MaxTime == 1
MaxClock == 47
MaxProducers == 2

(***************************************************************************)
(* Optional values and small helpers.                                      *)
(***************************************************************************)
None == << >>
Some(x) == << x >>
Val(o) == o[1]

Min(a, b) == IF a < b THEN a ELSE b
Max(a, b) == IF a > b THEN a ELSE b

\* Python's normalisation of a slice bound k for a list of length n.
SliceIndex(k, n) ==
    IF k < 0 THEN (IF n + k < 0 THEN 0 ELSE n + k)
             ELSE (IF k > n THEN n ELSE k)

\* q[:k]
SliceTo(q, k) == SubSeq(q, 1, SliceIndex(k, Len(q)))

\* q[k:]
SliceFrom(q, k) == SubSeq(q, SliceIndex(k, Len(q)) + 1, Len(q))

(***************************************************************************)
(* str.upper() on the characters the model uses.                           *)
(***************************************************************************)
UpperChar(c) ==
    CASE c = "a" -> "A"
      [] c = "b" -> "B"
      [] c = "c" -> "C"
      [] c = "d" -> "D"
      [] c = "e" -> "E"
      [] c = "f" -> "F"
      [] c = "g" -> "G"
      [] c = "h" -> "H"
      [] c = "i" -> "I"
      [] c = "j" -> "J"
      [] c = "k" -> "K"
      [] c = "l" -> "L"
      [] c = "m" -> "M"
      [] c = "n" -> "N"
      [] c = "o" -> "O"
      [] c = "p" -> "P"
      [] c = "q" -> "Q"
      [] c = "r" -> "R"
      [] c = "s" -> "S"
      [] c = "t" -> "T"
      [] c = "u" -> "U"
      [] c = "v" -> "V"
      [] c = "w" -> "W"
      [] c = "x" -> "X"
      [] c = "y" -> "Y"
      [] c = "z" -> "Z"
      [] OTHER -> c

Upper(s) == [i \in 1..Len(s) |-> UpperChar(s[i])]

RECURSIVE Join(_)
\* the Python string of a character sequence (as formatted into a message)
Join(s) == IF s = << >> THEN "" ELSE s[1] \o Join(Tail(s))

(***************************************************************************)
(* TradeAction and TradeSignal.                                            *)
(***************************************************************************)
BUY == << "B","U","Y" >>
SELL == << "S","E","L","L" >>
CLOSE == << "C","L","O","S","E" >>
MODIFY == << "M","O","D","I","F","Y" >>

TradeAction == { BUY, SELL, CLOSE, MODIFY }

TradeSignal(sym, act, lot, sl, tp, id) ==
    [ symbol |-> sym, action |-> act, lot_size |-> lot,
      stop_loss |-> sl, take_profit |-> tp, signal_id |-> id ]

\* float('nan'): an integer outside the range of the lot sizes and prices
\* stands for it; every ordering comparison with it is false, and it is
\* truthy
NaN == 0 - 99
FloatLe(a, b) == a # NaN /\ b # NaN /\ a <= b
FloatGe(a, b) == a # NaN /\ b # NaN /\ a >= b
FloatLt(a, b) == a # NaN /\ b # NaN /\ a < b
FloatGt(a, b) == a # NaN /\ b # NaN /\ a > b

\* Python truthiness of an Optional[float]
Truthy(o) == o # None /\ Val(o) # 0

(***************************************************************************)
(* TradeSignal.validate: (is_valid, error_message).                        *)
(***************************************************************************)
Valid == [ ok |-> TRUE, reason |-> None ]
Invalid(msg) == [ ok |-> FALSE, reason |-> Some(msg) ]

\* not self.symbol or len(self.symbol) < 3
SymbolInvalid(s) == s.symbol = "" \/ Len(s.symbol) < 3

\* TradeAction(self.action.upper()) raises ValueError (caught by validate)
ActionInvalid(s) == Upper(s.action) \notin TradeAction

BuyConflict_strict(s) ==
    /\ Upper(s.action) = BUY
    /\ Truthy(s.stop_loss) /\ Truthy(s.take_profit)
    /\ FloatGt(Val(s.stop_loss), Val(s.take_profit))

\* action.upper() == "BUY" and stop_loss and take_profit and stop_loss >= take_profit
BuyConflict(s) ==
    /\ Upper(s.action) = BUY
    /\ Truthy(s.stop_loss) /\ Truthy(s.take_profit)
    /\ FloatGe(Val(s.stop_loss), Val(s.take_profit))

\* action.upper() == "SELL" and stop_loss and take_profit and stop_loss <= take_profit
SellConflict(s) ==
    /\ Upper(s.action) = SELL
    /\ Truthy(s.stop_loss) /\ Truthy(s.take_profit)
    /\ FloatLe(Val(s.stop_loss), Val(s.take_profit))

validate(s) ==
    IF SymbolInvalid(s) THEN Invalid("Invalid symbol")
    ELSE IF ActionInvalid(s) THEN Invalid("Invalid action: " \o Join(s.action))
    ELSE IF FloatLe(s.lot_size, 0) THEN Invalid("Lot size must be positive")
    ELSE IF s.stop_loss # None /\ FloatLe(Val(s.stop_loss), 0)
         THEN Invalid("Stop loss must be positive")
    ELSE IF s.take_profit # None /\ FloatLe(Val(s.take_profit), 0)
         THEN Invalid("Take profit must be positive")
    ELSE IF BuyConflict(s)
         THEN Invalid("Stop loss must be less than take profit for BUY")
    ELSE IF SellConflict(s)
         THEN Invalid("Stop loss must be greater than take profit for SELL")
    ELSE Valid

(***************************************************************************)
(* SignalManager: the pure parts of add_signal and get_signals.            *)
(***************************************************************************)
\* add_signal with the duplicate check ahead of validation
AddCheck_dupfirst(s, q, seen, N) ==
    IF s.signal_id \in seen THEN Invalid("Duplicate signal")
    ELSE IF ~validate(s).ok THEN validate(s)
    ELSE IF Len(q) >= N THEN Invalid("Queue is full")
    ELSE Valid

\* add_signal without the duplicate check
AddCheck_nodup(s, q, seen, N) ==
    IF ~validate(s).ok THEN validate(s)
    ELSE IF Len(q) >= N THEN Invalid("Queue is full")
    ELSE Valid

\* add_signal with an off-by-one capacity check
AddCheck_offbyone(s, q, seen, N) ==
    IF ~validate(s).ok THEN validate(s)
    ELSE IF s.signal_id \in seen THEN Invalid("Duplicate signal")
    ELSE IF Len(q) > N THEN Invalid("Queue is full")
    ELSE Valid

\* the three checks of add_signal, in the order of the code
AddCheck(s, q, seen, N) ==
    IF ~validate(s).ok THEN validate(s)
    ELSE IF s.signal_id \in seen THEN Invalid("Duplicate signal")
    ELSE IF Len(q) >= N THEN Invalid("Queue is full")
    ELSE Valid

\* get_signals taking from the tail of the queue
TakeSignals_lifo(q, count) ==
    IF count = None THEN q ELSE SliceFrom(q, 0 - Val(count))

\* get_signals: the signals returned
TakeSignals(q, count) ==
    IF count = None THEN q ELSE SliceTo(q, Val(count))

\* get_signals: what stays in the queue
TakeRest(q, count) ==
    IF count = None THEN << >> ELSE SliceFrom(q, Val(count))

\* get_signals: self.history = self.history[-self.max_history:] when over the cap
TrimHistory(h, H) ==
    IF Len(h) > H THEN SliceFrom(h, 0 - H) ELSE h

(***************************************************************************)
(* Inputs.                                                                 *)
(***************************************************************************)
Ids == 1..MaxId
Prices == (0 - 1)..MaxPrice
OptPrices == { None } \cup { Some(p) : p \in Prices }

Symbols == { "", "EU", "EURUSD" }
Actions == { BUY, SELL, CLOSE, MODIFY,
             << "b","u","y" >>, << "S","e","l","l" >>, << "H","O","L","D" >> }
LotSizes == { -1, 0, 1 }

\* every signal validate is tried on
AllSignals ==
    { TradeSignal(sym, act, lot, sl, tp, 1) :
        sym \in Symbols, act \in Actions, lot \in LotSizes,
        sl \in OptPrices, tp \in OptPrices }

\* the signals a producer offers to the store: per id one valid signal (a
\* BUY for odd ids, a lower-case sell for even ones) and one BUY whose stop
\* loss is not below its take profit
GoodSignal(i) ==
    IF i % 2 = 1
    THEN TradeSignal("EURUSD", BUY, 1, Some(1), Some(2), i)
    ELSE TradeSignal("GBPUSD", << "s","e","l","l" >>, 1, Some(2), Some(1), i)

BadSignal(i) == TradeSignal("EURUSD", BUY, 1, Some(2), Some(1), i)

StoreSignals == { GoodSignal(i) : i \in Ids } \cup { BadSignal(i) : i \in Ids }

Counts == { None } \cup { Some(k) : k \in (0 - MaxCount)..MaxCount }

(***************************************************************************)
(* State.                                                                  *)
(*   queue, history, processed_signals, max_queue_size, max_history:       *)
(*       the fields of SignalManager;                                      *)
(*   lastOp: the last store operation with its arguments and results;      *)
(*   prevOp: the kind and outcome of the operation before it;              *)
(*       taken: every signal get_signals has returned, in     *)
(*       order; accepted: the ids add_signal has accepted, in order;       *)
(*   sig, vres: a signal and the result of validate on it;                 *)
(*   running, connection_status, last_heartbeat, stats: the fields of      *)
(*       MQL5Bridge; now: the clock read by datetime.now();                *)
(*   pc: where the thread that called start() is ("init" before start(),   *)
(*       then "recv", "process", "send", "except" in _run);                *)
(*   message, response, error: the locals of _run (the payload received,   *)
(*       the response built, the text of the exception caught);            *)
(*   awaiting: the REP socket holds a request whose reply was not sent;    *)
(*   answers: the number of responses emitted for the last request;        *)
(*   socket: self.socket and self.context ("none" before start() creates   *)
(*       them, then "open", and "closed" once stop() has closed them);     *)
(*   monitor: where the heartbeat thread is ("none" before it is started,  *)
(*       "head" at its loop test, "sleep" in time.sleep(5), "done");       *)
(*   warned: the last poll of the monitor logged the connection-lost       *)
(*       warning; stopped_at: where the start() thread was when stop() was *)
(*       first called ("none" while it was never called);                  *)
(*   add_pc, adding: a producer thread inside add_signal and the signal it *)
(*       is adding; take_pc, take_count, take_signals: a thread inside     *)
(*       get_signals, its argument and its local list signals;             *)
(*   callers: for each of several threads calling send_signal at once,     *)
(*       where it is inside add_signal and the signal it is adding.        *)
(***************************************************************************)
VARIABLES queue, history, processed_signals, max_queue_size, max_history,
          lastOp, prevOp, taken, accepted,
          sig, vres,
          running, connection_status, last_heartbeat, stats, now,
          pc, message, response, error, awaiting, answers,
          socket, monitor, warned, stopped_at,
          add_pc, adding, take_pc, take_count, take_signals, callers

storeVars == << queue, history, processed_signals, max_queue_size, max_history >>
logVars == << taken, accepted >>
obsVars == << lastOp, prevOp >>
valVars == << sig, vres >>
sessionVars == << running, connection_status, last_heartbeat, stats >>
loopVars == << pc, message, response, error, awaiting, answers >>
lifeVars == << socket, monitor, warned, stopped_at >>
threadVars == << add_pc, adding, take_pc, take_count, take_signals, callers >>
bridgeVars == << sessionVars, now, loopVars, lifeVars >>
vars == << storeVars, logVars, obsVars, valVars, bridgeVars, threadVars >>

\* the threads that call send_signal concurrently
Producers == 1..MaxProducers

NoOp ==
    [ op |-> "none", signal |-> None, count |-> None,
      ok |-> FALSE, reason |-> None, signals |-> << >> ]

\* SignalManager.__init__ with the given caps
InitStore(Ns, Hs) ==
    /\ queue = << >>
    /\ history = << >>
    /\ processed_signals = {}
    /\ max_queue_size \in Ns
    /\ max_history \in Hs
    /\ lastOp = NoOp
    /\ prevOp = [ op |-> "none", ok |-> FALSE ]
    /\ taken = << >>
    /\ accepted = << >>
    /\ add_pc = "idle"
    /\ adding = None
    /\ take_pc = "idle"
    /\ take_count = None
    /\ take_signals = << >>
    /\ callers = [ p \in Producers |-> [ pc |-> "idle", adding |-> None ] ]

InitValidate(S) ==
    /\ sig \in S
    /\ vres = None

NoMessage == [ json |-> "none" ]
NoResponse == [ status |-> "none" ]

\* MQL5Bridge.__init__
InitBridge ==
    /\ running = FALSE
    /\ connection_status = "disconnected"
    /\ last_heartbeat = None
    /\ stats = [ signals_sent |-> 0, signals_received |-> 0,
                 errors |-> 0, reconnections |-> 0 ]
    /\ now = 0
    /\ pc = "init"
    /\ message = NoMessage
    /\ response = NoResponse
    /\ error = None
    /\ awaiting = FALSE
    /\ answers = 0
    /\ socket = "none"
    /\ monitor = "none"
    /\ warned = FALSE
    /\ stopped_at = "none"

(***************************************************************************)
(* SignalManager operations.                                               *)
(***************************************************************************)
\* add_signal recording the id before the checks, so that a rejected
\* signal is marked seen
add_signal_marksRejected(s) ==
    LET r == AddCheck(s, queue, processed_signals, max_queue_size) IN
    /\ queue' = IF r.ok THEN Append(queue, s) ELSE queue
    /\ processed_signals' = processed_signals \cup { s.signal_id }
    /\ accepted' = IF r.ok THEN Append(accepted, s.signal_id) ELSE accepted
    /\ UNCHANGED << history, max_queue_size, max_history, taken, threadVars >>

add_signal(s) ==
    LET r == AddCheck(s, queue, processed_signals, max_queue_size) IN
    /\ queue' = IF r.ok THEN Append(queue, s) ELSE queue
    /\ processed_signals' =
           IF r.ok THEN processed_signals \cup { s.signal_id } ELSE processed_signals
    /\ accepted' = IF r.ok THEN Append(accepted, s.signal_id) ELSE accepted
    /\ UNCHANGED << history, max_queue_size, max_history, taken, threadVars >>

get_signals(count) ==
    /\ queue' = TakeRest(queue, count)
    /\ history' = TrimHistory(history \o TakeSignals(queue, count), max_history)
    /\ taken' = taken \o TakeSignals(queue, count)
    /\ UNCHANGED << processed_signals, max_queue_size, max_history, accepted,
                    threadVars >>

\* clear_queue forgetting the ids of the signals it discards
clear_queue_forgets ==
    /\ queue' = << >>
    /\ processed_signals' =
         processed_signals \ { queue[i].signal_id : i \in 1..Len(queue) }
    /\ UNCHANGED << history, max_queue_size, max_history,
                    taken, accepted, threadVars >>

clear_queue ==
    /\ queue' = << >>
    /\ UNCHANGED << history, processed_signals, max_queue_size, max_history,
                    taken, accepted, threadVars >>

(***************************************************************************)
(* The store on its own: any sequence of add, take and clear, for every    *)
(* configured capacity and history cap.  Each step records the operation,  *)
(* its argument and what it returned in lastOp.                            *)
(***************************************************************************)
Observe(op) ==
    /\ lastOp' = op
    /\ prevOp' = [ op |-> lastOp.op, ok |-> lastOp.ok ]

AddStep ==
    \E s \in StoreSignals :
      LET r == AddCheck(s, queue, processed_signals, max_queue_size) IN
      /\ add_signal(s)
      /\ Observe([ op |-> "add", signal |-> Some(s), count |-> None,
                   ok |-> r.ok, reason |-> r.reason, signals |-> << >> ])
      /\ UNCHANGED << valVars, bridgeVars >>

TakeStep ==
    \E c \in Counts :
      /\ get_signals(c)
      /\ Observe([ op |-> "take", signal |-> None, count |-> c,
                   ok |-> TRUE, reason |-> None,
                   signals |-> TakeSignals(queue, c) ])
      /\ UNCHANGED << valVars, bridgeVars >>

ClearStep ==
    /\ clear_queue
    /\ Observe([ op |-> "clear", signal |-> None, count |-> None,
                 ok |-> TRUE, reason |-> None, signals |-> << >> ])
    /\ UNCHANGED << valVars, bridgeVars >>

Init ==
    /\ InitStore(0..MaxQueueSize, 0..MaxHistory)
    /\ InitValidate({ TradeSignal("EURUSD", BUY, 1, None, None, 1) })
    /\ InitBridge

Next == AddStep \/ TakeStep \/ ClearStep

Spec == Init /\ [][Next]_vars

(***************************************************************************)
(* validate as a function: one signal drawn from AllSignals, validated.    *)
(***************************************************************************)
ValidateStep ==
    /\ vres = None
    /\ vres' = Some(validate(sig))
    /\ UNCHANGED << sig, storeVars, logVars, obsVars, bridgeVars, threadVars >>

InitV ==
    /\ InitStore({ MaxQueueSize }, { MaxHistory })
    /\ InitValidate(AllSignals)
    /\ InitBridge

NextV == ValidateStep

SpecValidate == InitV /\ [][NextV]_vars

(***************************************************************************)
(* Properties of the store (checked under Spec).                           *)
(***************************************************************************)
\* the last n elements of a sequence
LastN(seq, n) == SubSeq(seq, Len(seq) - n + 1, Len(seq))

NoRepeat(seq) == \A i, j \in 1..Len(seq) : seq[i] = seq[j] => i = j

IdsOf(seq) == [ i \in 1..Len(seq) |-> seq[i].signal_id ]

WasAccepted(id) == \E i \in 1..Len(accepted) : accepted[i] = id

LastResult == [ ok |-> lastOp.ok, reason |-> lastOp.reason ]

\* C1: add_signal applies validation, then the duplicate check, then the
\* capacity check, and reports the reason of the first check that fails; a
\* rejected add leaves the store as it was; only when all three pass is the
\* signal appended at the tail of the queue and its id marked seen, with the
\* result (True, None).
C1_AddCheckOrder ==
    [][ lastOp'.op = "add" =>
          LET s == Val(lastOp'.signal)
              r == LastResult'
          IN  IF ~validate(s).ok
              THEN /\ r = validate(s)
                   /\ r.ok = FALSE /\ r.reason # None
                   /\ r.reason \notin { Some("Duplicate signal"), Some("Queue is full") }
                   /\ UNCHANGED storeVars
              ELSE IF s.signal_id \in processed_signals
              THEN r = Invalid("Duplicate signal") /\ UNCHANGED storeVars
              ELSE IF Len(queue) >= max_queue_size
              THEN r = Invalid("Queue is full") /\ UNCHANGED storeVars
              ELSE /\ r = Valid
                   /\ queue' = Append(queue, s)
                   /\ processed_signals' = processed_signals \cup { s.signal_id }
                   /\ UNCHANGED << history, max_queue_size, max_history >>
      ]_vars

\* C1 witness: an invalid signal whose id is already seen, offered to a full
\* queue, was rejected with its validation reason.
C1_Witness ==
    /\ lastOp.op = "add"
    /\ ~validate(Val(lastOp.signal)).ok
    /\ Val(lastOp.signal).signal_id \in processed_signals
    /\ max_queue_size >= 1 /\ Len(queue) = max_queue_size
    /\ lastOp.ok = FALSE
    /\ lastOp.reason = validate(Val(lastOp.signal)).reason

\* C2 (as claimed): an add whose id was accepted earlier is rejected with a
\* duplicate reason and leaves the pending size unchanged.
C2_SeenIdIsDuplicate ==
    [][ (lastOp'.op = "add" /\ WasAccepted(Val(lastOp'.signal).signal_id)) =>
          /\ lastOp'.ok = FALSE
          /\ lastOp'.reason = Some("Duplicate signal")
          /\ Len(queue') = Len(queue)
      ]_vars

\* C2 (amended): an add whose id was accepted earlier is always rejected and
\* leaves the store unchanged; its reason is the duplicate reason when the
\* signal is valid and the validation reason when it is not; no id is ever
\* accepted twice and the queue never holds two signals with the same id.
C2_SeenIdRejected ==
    /\ [](NoRepeat(accepted) /\ NoRepeat(IdsOf(queue)))
    /\ [][ (lastOp'.op = "add" /\ WasAccepted(Val(lastOp'.signal).signal_id)) =>
             LET s == Val(lastOp'.signal) IN
             /\ lastOp'.ok = FALSE
             /\ lastOp'.reason = IF validate(s).ok THEN Some("Duplicate signal")
                                                   ELSE validate(s).reason
             /\ UNCHANGED storeVars
             /\ accepted' = accepted
         ]_vars

\* C2 witness: a valid signal whose id was accepted earlier, and which has
\* since left both the queue and the history, was rejected as a duplicate.
C2_Witness ==
    /\ lastOp.op = "add"
    /\ lastOp.reason = Some("Duplicate signal")
    /\ WasAccepted(Val(lastOp.signal).signal_id)
    /\ \A i \in 1..Len(queue) : queue[i].signal_id # Val(lastOp.signal).signal_id
    /\ \A i \in 1..Len(history) : history[i].signal_id # Val(lastOp.signal).signal_id
    /\ max_history >= 1 /\ Len(taken) > Len(history)

\* C3: the queue never holds more than max_queue_size signals; every add is
\* possible in every state (it never waits); the add of a valid signal with
\* an unseen id to a full queue is rejected with the capacity reason and
\* leaves the size at max_queue_size.
C3_QueueBounded ==
    /\ [](Len(queue) <= max_queue_size)
    /\ [](\A s \in StoreSignals : ENABLED add_signal(s))
    /\ [][ ( /\ lastOp'.op = "add"
             /\ Len(queue) = max_queue_size
             /\ validate(Val(lastOp'.signal)).ok
             /\ Val(lastOp'.signal).signal_id \notin processed_signals ) =>
             /\ lastOp'.ok = FALSE
             /\ lastOp'.reason = Some("Queue is full")
             /\ Len(queue') = max_queue_size
         ]_vars

\* C3 witness: a valid signal with an unseen id was rejected for capacity by
\* a full queue of positive capacity.
C3_Witness ==
    /\ lastOp.op = "add"
    /\ lastOp.reason = Some("Queue is full")
    /\ validate(Val(lastOp.signal)).ok
    /\ Val(lastOp.signal).signal_id \notin processed_signals
    /\ max_queue_size >= 1 /\ Len(queue) = max_queue_size

\* C4: for every count k (an integer, or None for all) get_signals returns at
\* most min(k, pending size) signals (none when that is negative), they are
\* the oldest pending signals in FIFO order, they are removed from the queue
\* whose remaining signals keep their order, and they are appended to the
\* signals taken so far.
C4_TakeAtMostCount ==
    [][ lastOp'.op = "take" =>
          LET k == lastOp'.count
              out == lastOp'.signals
              most == IF k = None THEN Len(queue)
                      ELSE Max(0, Min(Val(k), Len(queue)))
          IN  /\ Len(out) <= most
              /\ out = SubSeq(queue, 1, Len(out))
              /\ queue' = SubSeq(queue, Len(out) + 1, Len(queue))
              /\ taken' = taken \o out
      ]_vars

\* C5: for every history cap, the history never holds more than max_history
\* signals and equals the most recent min(max_history, total taken) signals
\* taken, in the order they were taken.
C5_HistoryBounded ==
    /\ Len(history) <= max_history
    /\ history = LastN(taken, Min(max_history, Len(taken)))

\* C6 (as claimed): for every valid signal s, add(s) followed by take(1)
\* returns exactly [s] and the queue is one shorter than after the add.
C6_AddThenTakeReturnsIt ==
    [][ ( /\ lastOp.op = "add"
          /\ validate(Val(lastOp.signal)).ok
          /\ lastOp'.op = "take" /\ lastOp'.count = Some(1) ) =>
          /\ lastOp'.signals = << Val(lastOp.signal) >>
          /\ Len(queue') = Len(queue) - 1
      ]_vars

\* C6 (amended): when add(s) is accepted, a following take(1) returns exactly
\* one signal, the oldest pending one, which is s exactly when the queue was
\* empty before the add; the queue is one shorter than after the add.
C6_AcceptedAddThenTake ==
    [][ ( /\ lastOp.op = "add" /\ lastOp.ok
          /\ lastOp'.op = "take" /\ lastOp'.count = Some(1) ) =>
          /\ lastOp'.signals = << Head(queue) >>
          /\ (lastOp'.signals = << Val(lastOp.signal) >>) <=> (Len(queue) = 1)
          /\ Len(queue') = Len(queue) - 1
      ]_vars

\* C6 witness: take(1) right after an accepted add returned the signal that
\* add had appended.
C6_Witness ==
    /\ lastOp.op = "take" /\ lastOp.count = Some(1)
    /\ prevOp = [ op |-> "add", ok |-> TRUE ]
    /\ Len(lastOp.signals) = 1
    /\ lastOp.signals[1].signal_id = accepted[Len(accepted)]

(***************************************************************************)
(* Properties of validate (checked under SpecValidate).                    *)
(***************************************************************************)
BuySpellings == { BUY, << "b","u","y" >> }
SellSpellings == { SELL, << "S","e","l","l" >> }
KnownSpellings == BuySpellings \cup SellSpellings \cup { CLOSE, MODIFY }

HasBoth(s) == s.stop_loss # None /\ s.take_profit # None

\* the field constraints other than the stop-loss/take-profit order
FieldsOk(s) ==
    /\ Len(s.symbol) >= 3
    /\ s.action \in KnownSpellings
    /\ s.lot_size > 0
    /\ s.stop_loss # None => Val(s.stop_loss) > 0
    /\ s.take_profit # None => Val(s.take_profit) > 0

\* C7: validate returns (False, reason) with a reason for every BUY signal
\* that has both levels with stop_loss >= take_profit and for every SELL
\* signal that has both with stop_loss <= take_profit, in any spelling of the
\* action; a BUY with stop_loss < take_profit and a SELL with stop_loss >
\* take_profit pass when the other field constraints hold.
C7_StopLossOrder ==
    vres # None =>
      LET r == Val(vres) IN
      /\ r.ok \in BOOLEAN
      /\ ( /\ sig.action \in BuySpellings /\ HasBoth(sig)
           /\ Val(sig.stop_loss) >= Val(sig.take_profit) )
         => (r.ok = FALSE /\ r.reason # None)
      /\ ( /\ sig.action \in SellSpellings /\ HasBoth(sig)
           /\ Val(sig.stop_loss) <= Val(sig.take_profit) )
         => (r.ok = FALSE /\ r.reason # None)
      /\ ( /\ FieldsOk(sig) /\ sig.action \in BuySpellings /\ HasBoth(sig)
           /\ Val(sig.stop_loss) < Val(sig.take_profit) )
         => r = Valid
      /\ ( /\ FieldsOk(sig) /\ sig.action \in SellSpellings /\ HasBoth(sig)
           /\ Val(sig.stop_loss) > Val(sig.take_profit) )
         => r = Valid

\* C7 witness: a lower-case buy with equal, positive stop loss and take
\* profit and otherwise valid fields was rejected for the order of the two.
C7_Witness ==
    /\ vres # None
    /\ sig.action = << "b","u","y" >>
    /\ FieldsOk(sig) /\ HasBoth(sig)
    /\ Val(sig.stop_loss) = Val(sig.take_profit)
    /\ Val(vres) = Invalid("Stop loss must be less than take profit for BUY")

(***************************************************************************)
(* MQL5Bridge: the payloads a client can send.  A payload is invalid JSON, *)
(* JSON that is no object, or an object; a field of an object is absent,   *)
(* null, a string or an integer.                                           *)
(***************************************************************************)
Absent == << "absent" >>
Null == << "null" >>
JsonStr(s) == << "str", s >>
JsonInt(k) == << "int", k >>

Request(a, c) == [ json |-> "object", action |-> a, count |-> c ]

GET_SIGNALS == << "G","E","T","_","S","I","G","N","A","L","S" >>
SEND_STATUS == << "S","E","N","D","_","S","T","A","T","U","S" >>
HEARTBEAT == << "H","E","A","R","T","B","E","A","T" >>
GET_BRIDGE_STATUS ==
    << "G","E","T","_","B","R","I","D","G","E","_","S","T","A","T","U","S" >>
get_signals_lower == << "g","e","t","_","s","i","g","n","a","l","s" >>
PING == << "P","I","N","G" >>
ping_lower == << "p","i","n","g" >>

CountFields ==
    { Absent, Null, JsonStr(<< "2" >>) } \cup { JsonInt(k) : k \in (0 - 1)..MaxCount }

Payloads ==
    { [ json |-> "invalid" ], [ json |-> "array" ] }
    \cup { Request(JsonStr(GET_SIGNALS), c) : c \in CountFields }
    \cup { Request(JsonStr(a), Absent) :
             a \in { get_signals_lower, SEND_STATUS, HEARTBEAT,
                     GET_BRIDGE_STATUS, PING, ping_lower } }
    \cup { Request(a, Absent) : a \in { Absent, Null, JsonInt(5) } }

\* dict.get(key, default) on a field of the request
Get(field, default) == IF field = Absent THEN default ELSE field

\* request.get('action', '').upper() raises AttributeError unless the value
\* is a string
ActionRaises(req) == Get(req.action, JsonStr(<< >>))[1] # "str"
ActionOf(req) == Upper(Get(req.action, JsonStr(<< >>))[2])

\* request.get('count', None), and whether slicing with it raises TypeError
CountOf(req) ==
    LET c == Get(req.count, Null) IN
    IF c[1] = "int" THEN Some(c[2]) ELSE None
CountRaises(req) == Get(req.count, Null)[1] = "str"

\* whether _process_request(request) raises, and str(e) of what it raises
ProcessRaises(msg) ==
    \/ msg.json = "array"
    \/ msg.json = "object" /\ ActionRaises(msg)
    \/ msg.json = "object" /\ ~ActionRaises(msg)
         /\ ActionOf(msg) = GET_SIGNALS /\ CountRaises(msg)

ProcessError(msg) ==
    IF msg.json = "array" THEN "'list' object has no attribute 'get'"
    ELSE IF ActionRaises(msg)
    THEN (IF msg.action = Null THEN "'NoneType' object has no attribute 'upper'"
                               ELSE "'int' object has no attribute 'upper'")
    ELSE "slice indices must be integers or None or have an __index__ method"

\* self.stats['signals_sent'] += 1 (counting requests, not signals)
SignalsSentAfter_perRequest(st, signals) ==
    [ st EXCEPT !.signals_sent = @ + 1 ]

\* self.stats['signals_sent'] += len(signals)
SignalsSentAfter(st, signals) ==
    [ st EXCEPT !.signals_sent = @ + Len(signals) ]

\* {'status': 'OK', 'message': ...} (an error reported as a success)
ErrorResponse_ok(msg) == [ status |-> "OK", message |-> msg ]

ErrorResponse(msg) == [ status |-> "ERROR", message |-> msg ]

(***************************************************************************)
(* MQL5Bridge operations.                                                  *)
(***************************************************************************)
\* start(), when the bind succeeds and nothing runs in between: up to the
\* call of _run(), the heartbeat thread started
Start ==
    /\ pc = "init"
    /\ socket' = "open"
    /\ running' = TRUE
    /\ connection_status' = "listening"
    /\ monitor' = "head"
    /\ pc' = "recv"
    /\ UNCHANGED << last_heartbeat, stats, now, message, response, error,
                    awaiting, answers, warned, stopped_at >>
    /\ UNCHANGED << storeVars, logVars, obsVars, valVars, threadVars >>

\* _run: recv_string returns a payload (zmq.Again, sleep and retry leaves
\* the state as it is)
Recv(m) ==
    /\ pc = "recv" /\ running /\ ~awaiting /\ socket = "open"
    /\ (m.json = "invalid" \/ ProcessRaises(m)) => stats.errors < MaxErrors
    /\ message' = m
    /\ response' = NoResponse
    /\ error' = None
    /\ awaiting' = TRUE
    /\ answers' = 0
    /\ pc' = "process"
    /\ UNCHANGED << sessionVars, now, lifeVars >>
    /\ UNCHANGED << storeVars, logVars, obsVars, valVars, threadVars >>

\* _run: recv_string on a REP socket that still owes a reply raises
\* ZMQError (EFSM), which is not zmq.Again
RecvRaises ==
    /\ pc = "recv" /\ running /\ awaiting /\ socket = "open"
    /\ stats.errors < MaxErrors
    /\ error' = Some("Operation cannot be accomplished in current state")
    /\ pc' = "except"
    /\ UNCHANGED << message, response, awaiting, answers >>
    /\ UNCHANGED << sessionVars, now, lifeVars >>
    /\ UNCHANGED << storeVars, logVars, obsVars, valVars, threadVars >>

\* _process_request, action GET_SIGNALS
HandleGetSignals ==
    /\ get_signals(CountOf(message))
    /\ stats' = SignalsSentAfter(stats, TakeSignals(queue, CountOf(message)))
    /\ response' = [ status |-> "OK",
                     signals |-> TakeSignals(queue, CountOf(message)),
                     queue_size |-> Len(queue') ]
    /\ UNCHANGED << running, connection_status, last_heartbeat >>

\* _process_request, action SEND_STATUS
HandleSendStatus ==
    /\ last_heartbeat' = Some(now)
    /\ connection_status' = "connected"
    /\ response' = [ status |-> "OK" ]
    /\ UNCHANGED << running, stats, storeVars, logVars, threadVars >>

\* a HEARTBEAT handler that counts the heartbeat as a received signal
HandleHeartbeat_counts ==
    /\ last_heartbeat' = Some(now)
    /\ connection_status' = "connected"
    /\ stats' = [ stats EXCEPT !.signals_received = @ + 1 ]
    /\ response' = [ status |-> "OK", timestamp |-> now,
                     queue_size |-> Len(queue) ]
    /\ UNCHANGED << running, storeVars, logVars, threadVars >>

\* _process_request, action HEARTBEAT
HandleHeartbeat ==
    /\ last_heartbeat' = Some(now)
    /\ connection_status' = "connected"
    /\ response' = [ status |-> "OK", timestamp |-> now,
                     queue_size |-> Len(queue) ]
    /\ UNCHANGED << running, stats, storeVars, logVars, threadVars >>

\* _process_request, action GET_BRIDGE_STATUS
HandleGetBridgeStatus ==
    /\ response' = [ status |-> "OK",
                     connection_status |-> connection_status,
                     queue_size |-> Len(queue),
                     stats |-> stats,
                     last_heartbeat |-> last_heartbeat ]
    /\ UNCHANGED << sessionVars, storeVars, logVars, threadVars >>

\* _process_request, any other action
HandleUnknown ==
    /\ response' = ErrorResponse("Unknown action: " \o Join(ActionOf(message)))
    /\ UNCHANGED << sessionVars, storeVars, logVars, threadVars >>

\* _run, lines 112-122: json.loads(message) and _process_request(request)
Process ==
    /\ pc = "process"
    /\ IF message.json = "invalid"
       THEN /\ response' = ErrorResponse("Invalid JSON")
            /\ pc' = "send" /\ error' = error
            /\ UNCHANGED << sessionVars, storeVars, logVars, threadVars >>
       ELSE IF ProcessRaises(message)
       THEN /\ error' = Some(ProcessError(message))
            /\ pc' = "except"
            /\ UNCHANGED << response, sessionVars, storeVars, logVars, threadVars >>
       ELSE /\ pc' = "send" /\ error' = error
            /\ CASE ActionOf(message) = GET_SIGNALS -> HandleGetSignals
                 [] ActionOf(message) = SEND_STATUS -> HandleSendStatus
                 [] ActionOf(message) = HEARTBEAT -> HandleHeartbeat
                 [] ActionOf(message) = GET_BRIDGE_STATUS -> HandleGetBridgeStatus
                 [] OTHER -> HandleUnknown
    /\ UNCHANGED << now, message, awaiting, answers, obsVars, valVars, lifeVars >>

\* _run, lines 118 and 125: socket.send_string(json.dumps(response)); the
\* reply is sent, or send_string raises ZMQError (as it always does on a
\* socket that stop() has closed)
Send ==
    /\ pc = "send"
    /\ \E sent \in (IF socket = "open" THEN BOOLEAN ELSE { FALSE }) :
         IF sent
         THEN /\ answers' = answers + 1
              /\ awaiting' = FALSE
              /\ pc' = "recv"
              /\ message' = NoMessage
              /\ response' = NoResponse
              /\ error' = error
         ELSE /\ socket = "open" => stats.errors < MaxErrors
              /\ error' = Some("ZMQError")
              /\ pc' = "except"
              /\ UNCHANGED << answers, awaiting, message, response >>
    /\ UNCHANGED << sessionVars, now, lifeVars >>
    /\ UNCHANGED << storeVars, logVars, obsVars, valVars, threadVars >>

\* _run, lines 127-136: count the error and, while running, try to send an
\* ERROR response carrying str(e); a failure of that send is swallowed
Except ==
    /\ pc = "except"
    /\ stats' = [ stats EXCEPT !.errors = @ + 1 ]
    /\ \E sent \in BOOLEAN :
         /\ response' = IF running THEN ErrorResponse(Val(error)) ELSE response
         /\ IF running /\ awaiting /\ sent /\ socket = "open"
            THEN answers' = answers + 1 /\ awaiting' = FALSE
            ELSE UNCHANGED << answers, awaiting >>
    /\ pc' = "recv"
    /\ message' = NoMessage
    /\ error' = None
    /\ UNCHANGED << running, connection_status, last_heartbeat, now, lifeVars >>
    /\ UNCHANGED << storeVars, logVars, obsVars, valVars, threadVars >>

\* send_signal: the local enqueue, in any lifecycle state
send_signal(s) ==
    /\ add_signal(s)
    /\ UNCHANGED << bridgeVars, obsVars, valVars >>

\* the clock advances
Tick ==
    /\ now < MaxTime
    /\ now' = now + 1
    /\ UNCHANGED << sessionVars, loopVars, lifeVars >>
    /\ UNCHANGED << storeVars, logVars, obsVars, valVars, threadVars >>

(***************************************************************************)
(* start() and stop() step by step.  start() runs in its own thread, so    *)
(* stop() can run between any two of its steps and of the steps of _run;   *)
(* pc = "bound" is start() between its bind and its setting of the running *)
(* flag, pc = "failed" is start() having raised to its caller, pc = "done" *)
(* is _run having returned.  The loop test of _run and the receive poll    *)
(* that follows it are one step.                                           *)
(***************************************************************************)
\* start(), lines 79-83: context and socket created, bind succeeds
Bind ==
    /\ pc = "init"
    /\ socket' = "open"
    /\ pc' = "bound"
    /\ UNCHANGED << sessionVars, now, message, response, error, awaiting, answers,
                    monitor, warned, stopped_at >>
    /\ UNCHANGED << storeVars, logVars, obsVars, valVars, threadVars >>

\* bind fails and start() carries on as if it had succeeded
BindFails_running ==
    /\ pc = "init"
    /\ socket' = "open"
    /\ connection_status' = "error"
    /\ running' = TRUE
    /\ monitor' = "head"
    /\ pc' = "recv"
    /\ UNCHANGED << last_heartbeat, stats, now, message, response, error,
                    awaiting, answers, warned, stopped_at >>
    /\ UNCHANGED << storeVars, logVars, obsVars, valVars, threadVars >>

\* start(), lines 79-82 and 96-99: socket.bind raises; the handler sets
\* connection_status and re-raises
BindFails ==
    /\ pc = "init"
    /\ socket' = "open"
    /\ connection_status' = "error"
    /\ pc' = "failed"
    /\ UNCHANGED << running, last_heartbeat, stats, now, message, response, error,
                    awaiting, answers, monitor, warned, stopped_at >>
    /\ UNCHANGED << storeVars, logVars, obsVars, valVars, threadVars >>

\* start(), lines 85-94: the running flag, "listening", the heartbeat thread
\* started, _run entered
StartRun ==
    /\ pc = "bound"
    /\ running' = TRUE
    /\ connection_status' = "listening"
    /\ monitor' = "head"
    /\ pc' = "recv"
    /\ UNCHANGED << last_heartbeat, stats, now, message, response, error,
                    awaiting, answers, socket, warned, stopped_at >>
    /\ UNCHANGED << storeVars, logVars, obsVars, valVars, threadVars >>

\* _run, line 107 on a socket stop() has closed: recv_string raises ZMQError
\* (ENOTSOCK), which is not zmq.Again
RecvClosed ==
    /\ pc = "recv" /\ running /\ socket = "closed"
    /\ stats.errors < MaxErrors
    /\ error' = Some("Socket operation on non-socket")
    /\ pc' = "except"
    /\ UNCHANGED << message, response, awaiting, answers >>
    /\ UNCHANGED << sessionVars, now, lifeVars >>
    /\ UNCHANGED << storeVars, logVars, obsVars, valVars, threadVars >>

\* _run, line 103: while self.running is false, _run returns
LoopExit ==
    /\ pc = "recv" /\ ~running
    /\ pc' = "done"
    /\ UNCHANGED << message, response, error, awaiting, answers >>
    /\ UNCHANGED << sessionVars, now, lifeVars >>
    /\ UNCHANGED << storeVars, logVars, obsVars, valVars, threadVars >>

\* stop(), lines 225-230, called from another thread
stop ==
    /\ running' = FALSE
    /\ socket' = IF socket = "none" THEN "none" ELSE "closed"
    /\ connection_status' = "stopped"
    /\ stopped_at' = IF stopped_at = "none" THEN pc ELSE stopped_at
    /\ UNCHANGED << last_heartbeat, stats, now, loopVars, monitor, warned >>
    /\ UNCHANGED << storeVars, logVars, obsVars, valVars, threadVars >>

(***************************************************************************)
(* The heartbeat monitor thread.                                           *)
(***************************************************************************)
\* self.heartbeat_timeout, in seconds
heartbeat_timeout == 30

\* elapsed >= self.heartbeat_timeout (degrading at the timeout itself)
HeartbeatLost_atTimeout(last, t) ==
    last # None /\ t - Val(last) >= heartbeat_timeout

\* if self.last_heartbeat: ... if elapsed > self.heartbeat_timeout
HeartbeatLost(last, t) ==
    last # None /\ t - Val(last) > heartbeat_timeout

\* _monitor_heartbeat, line 215: while self.running
MonitorHead ==
    /\ monitor = "head"
    /\ monitor' = IF running THEN "sleep" ELSE "done"
    /\ UNCHANGED << sessionVars, now, loopVars, socket, warned, stopped_at >>
    /\ UNCHANGED << storeVars, logVars, obsVars, valVars, threadVars >>

\* _monitor_heartbeat, lines 216-221: one poll after time.sleep(5)
monitor_heartbeat ==
    /\ monitor = "sleep"
    /\ IF HeartbeatLost(last_heartbeat, now)
       THEN connection_status' = "disconnected" /\ warned' = TRUE
       ELSE connection_status' = connection_status /\ warned' = FALSE
    /\ monitor' = "head"
    /\ UNCHANGED << running, last_heartbeat, stats, now, loopVars,
                    socket, stopped_at >>
    /\ UNCHANGED << storeVars, logVars, obsVars, valVars, threadVars >>

\* time passes between two steps, in seconds
Delays == { 15, 16 }

Elapse ==
    \E d \in Delays :
      /\ now + d <= MaxClock
      /\ now' = now + d
      /\ UNCHANGED << sessionVars, loopVars, lifeVars >>
      /\ UNCHANGED << storeVars, logVars, obsVars, valVars, threadVars >>

(***************************************************************************)
(* The bridge: one producer calling send_signal, one client sending        *)
(* payloads, the request loop of _run.                                     *)
(***************************************************************************)
DefaultMaxQueueSize == 1000
DefaultMaxHistory == 10000

SendSignalStep == \E s \in StoreSignals : send_signal(s)
RecvStep == \E m \in Payloads : Recv(m)

InitB ==
    /\ InitStore({ DefaultMaxQueueSize }, { DefaultMaxHistory })
    /\ InitValidate({ TradeSignal("EURUSD", BUY, 1, None, None, 1) })
    /\ InitBridge

NextB ==
    \/ Start
    \/ RecvStep
    \/ RecvRaises
    \/ Process
    \/ Send
    \/ Except
    \/ SendSignalStep
    \/ Tick

SpecBridge == InitB /\ [][NextB]_vars

(***************************************************************************)
(* Properties of the bridge (checked under SpecBridge).                    *)
(***************************************************************************)
IsGetSignalsReq(m) ==
    /\ m.json = "object"
    /\ m.action \in { JsonStr(GET_SIGNALS), JsonStr(get_signals_lower) }

KnownActionFields ==
    { JsonStr(a) : a \in { GET_SIGNALS, get_signals_lower, SEND_STATUS,
                           HEARTBEAT, GET_BRIDGE_STATUS } }

IsUnknownReq(m) == m.json = "object" /\ m.action \notin KnownActionFields

\* how a response names the action of a request
ActionName(field) ==
    CASE field = JsonStr(PING) -> "PING"
      [] field = JsonStr(ping_lower) -> "PING"
      [] field = Absent -> ""
      [] field = Null -> "None"
      [] field = JsonInt(5) -> "5"

TransportErrors ==
    { Some("ZMQError"), Some("Operation cannot be accomplished in current state") }

\* C8: signals_sent equals the number of signals returned by all GET_SIGNALS
\* so far; each GET_SIGNALS answers OK with the signals it took, adds their
\* number to signals_sent and reports as queue_size the pending size after
\* the take (GET_SIGNALS{} returns all pending signals and queue_size 0); the
\* stats of a GET_BRIDGE_STATUS response carry that counter.
C8_SignalsSentCounts ==
    /\ [](stats.signals_sent = Len(taken))
    /\ []((pc = "send" /\ "stats" \in DOMAIN response) =>
            response.stats.signals_sent = Len(taken))
    /\ [][ (pc = "process" /\ IsGetSignalsReq(message) /\ pc' = "send") =>
             /\ response'.status = "OK"
             /\ taken' = taken \o response'.signals
             /\ stats'.signals_sent = stats.signals_sent + Len(response'.signals)
             /\ response'.queue_size = Len(queue')
             /\ Len(queue') = Len(queue) - Len(response'.signals)
             /\ message.count = Absent =>
                  (response'.signals = queue /\ response'.queue_size = 0)
         ]_vars

\* C8 witness: after one accepted send_signal, GET_SIGNALS{} is about to be
\* answered with that one EURUSD signal and queue_size 0, and signals_sent
\* is 1.
C8_Witness ==
    /\ pc = "send"
    /\ IsGetSignalsReq(message) /\ message.count = Absent
    /\ Len(accepted) = 1
    /\ Len(response.signals) = 1
    /\ response.signals[1].symbol = "EURUSD"
    /\ response.queue_size = 0
    /\ stats.signals_sent = 1

\* C9: the request loop emits exactly one response for every request it
\* receives, never two, and is never back at the receive while a request is
\* unanswered.
C9_ExactlyOneResponse ==
    /\ answers <= 1
    /\ pc = "recv" => ~awaiting

\* C10: a request whose action is none of the four known ones changes no
\* store, session or counter state, and the response it gets is an ERROR
\* whose message names the action.
C10_UnknownActionNoChange ==
    [][ (IsUnknownReq(message) /\ pc' # pc /\ error \notin TransportErrors) =>
          /\ UNCHANGED << storeVars, sessionVars >>
          /\ (pc = "send" /\ answers' = answers + 1) =>
               response = ErrorResponse("Unknown action: " \o ActionName(message.action))
          /\ (pc = "except" /\ answers' = answers + 1) =>
               response' = ErrorResponse("Unknown action: " \o ActionName(message.action))
      ]_vars

\* a payload json.loads rejects, or one it parses to something that is no
\* object
Malformed(m) == m.json \in { "invalid", "array" }

\* the payloads whose handling raises no exception
WellFormed == { m \in Payloads : m.json = "object" /\ ~ProcessRaises(m) }

\* C11: while the loop handles a malformed payload it changes neither the
\* store nor connection_status nor the running flag and stays inside the
\* loop; the response built for invalid JSON is ERROR 'Invalid JSON'; every
\* response emitted for a malformed payload has status ERROR, and emitting
\* it puts the loop back at its receive with the reply no longer owed, where
\* every well-formed request can be received.
C11_MalformedPayload ==
    /\ [][ (Malformed(message) /\ pc' # pc) =>
             /\ UNCHANGED << storeVars, connection_status, running >>
             /\ pc' \in { "send", "except", "recv" }
             /\ (pc = "send" /\ answers' = answers + 1) => response.status = "ERROR"
             /\ (pc = "except" /\ answers' = answers + 1) => response'.status = "ERROR"
             /\ answers' = answers + 1 =>
                  (pc' = "recv" /\ ~awaiting' /\ running' /\ answers' = 1)
         ]_vars
    /\ []((pc = "send" /\ message.json = "invalid") =>
            response = ErrorResponse("Invalid JSON"))
    /\ []((pc = "recv" /\ running /\ ~awaiting) =>
            \A m \in WellFormed : ENABLED Recv(m))

\* C11 witness: with one signal pending and the peer connected, invalid JSON
\* has been received and the ERROR response for it is about to be sent, the
\* pending signal and the connection status untouched.
C11_Witness ==
    /\ pc = "send" /\ message.json = "invalid"
    /\ response = ErrorResponse("Invalid JSON")
    /\ Len(queue) = 1
    /\ connection_status = "connected"
    /\ running

(***************************************************************************)
(* The bridge with its heartbeat monitor: a client sending the four known  *)
(* requests at any time, the request loop, the monitor thread polling, and *)
(* the clock.                                                              *)
(***************************************************************************)
HeartbeatPayloads ==
    { Request(JsonStr(a), Absent) :
        a \in { GET_SIGNALS, SEND_STATUS, HEARTBEAT, GET_BRIDGE_STATUS } }

RecvStepH == \E m \in HeartbeatPayloads : Recv(m)

NextH ==
    \/ Start
    \/ RecvStepH
    \/ RecvRaises
    \/ Process
    \/ Send
    \/ Except
    \/ MonitorHead
    \/ monitor_heartbeat
    \/ Elapse

SpecHeartbeat == InitB /\ [][NextH]_vars

(***************************************************************************)
(* Properties of the heartbeat monitor (checked under SpecHeartbeat).      *)
(***************************************************************************)
\* C12: a poll of the monitor sets connection_status to disconnected when
\* last_heartbeat is set and more than heartbeat_timeout seconds have passed
\* since, and otherwise leaves connection_status as it is; a bridge that was
\* never contacted stays listening.
C12_MonitorPoll ==
    /\ [][ (monitor = "sleep" /\ monitor' = "head") =>
             IF last_heartbeat # None /\ now - Val(last_heartbeat) > heartbeat_timeout
             THEN connection_status' = "disconnected"
             ELSE connection_status' = connection_status
         ]_vars
    /\ []((running /\ last_heartbeat = None) => connection_status = "listening")

\* C12 witness: a poll one second past the timeout has degraded the status.
C12_Witness ==
    /\ monitor = "head" /\ warned
    /\ last_heartbeat # None
    /\ now - Val(last_heartbeat) = heartbeat_timeout + 1
    /\ connection_status = "disconnected"

\* C13: a poll that finds connection_status already disconnected neither
\* assigns it again nor logs the warning again.
C13_EdgeTriggered ==
    [][ (monitor = "sleep" /\ monitor' = "head" /\ connection_status = "disconnected")
          => ~warned'
      ]_vars

\* C14: a request processed with an OK response while connection_status is
\* disconnected sets it to connected, whichever action it carries, and the
\* monitor degrades a connected bridge only when more than heartbeat_timeout
\* seconds have passed since the last contact.
C14_RequestRestoresConnected ==
    /\ [][ (pc = "process" /\ pc' = "send" /\ connection_status = "disconnected"
             /\ response'.status = "OK")
            => connection_status' = "connected"
         ]_vars
    /\ [][ (connection_status = "connected" /\ connection_status' = "disconnected")
            => now - Val(last_heartbeat) > heartbeat_timeout
         ]_vars

\* C15: every request with one of the four known actions sets last_heartbeat
\* to the time it is processed.
C15_EveryRpcUpdatesContact ==
    [][ (pc = "process" /\ pc' = "send" /\ message.action \in KnownActionFields)
          => last_heartbeat' = Some(now)
      ]_vars

(***************************************************************************)
(* The life of a bridge: start() in its thread (bind succeeding or         *)
(* failing), the request loop, the heartbeat thread, a producer, and       *)
(* stop() called any number of times at any point.  SpecLifecycleFair adds *)
(* that the threads of the bridge keep being scheduled.                    *)
(***************************************************************************)
LifecyclePayloads ==
    { [ json |-> "invalid" ],
      Request(JsonStr(HEARTBEAT), Absent),
      Request(JsonStr(GET_SIGNALS), Absent) }

RecvStepL == \E m \in LifecyclePayloads : Recv(m)

LoopStep ==
    StartRun \/ RecvRaises \/ RecvClosed \/ LoopExit \/ Process \/ Send \/ Except

MonitorStep == MonitorHead \/ monitor_heartbeat

NextL ==
    \/ Bind
    \/ BindFails
    \/ StartRun
    \/ RecvStepL
    \/ RecvRaises
    \/ RecvClosed
    \/ LoopExit
    \/ Process
    \/ Send
    \/ Except
    \/ MonitorHead
    \/ monitor_heartbeat
    \/ SendSignalStep
    \/ stop

SpecLifecycle == InitB /\ [][NextL]_vars

SpecLifecycleFair ==
    InitB /\ [][NextL]_vars /\ WF_vars(LoopStep) /\ WF_vars(MonitorStep)

(***************************************************************************)
(* Properties of start() and stop().                                       *)
(***************************************************************************)
\* C16: once stop() has been called on a bridge whose start() had begun, the
\* request loop returns and the heartbeat thread ends.
C16_StopEndsLoop ==
    (stopped_at \notin { "none", "init" })
      ~> (pc \in { "done", "failed" } /\ monitor \in { "none", "done" })

\* a bridge that was never started, or one already stopped whose threads
\* have ended
NothingToStop ==
    \/ pc = "init"
    \/ stopped_at # "none" /\ pc = "done" /\ monitor = "done"

\* C17: stop() on a bridge with nothing to stop leaves running,
\* connection_status, last_heartbeat, the counters and the store as they
\* were.
C17_StopIsNoOp ==
    [][ (stop /\ NothingToStop) => UNCHANGED << sessionVars, storeVars >> ]_vars

\* C18: when the bind fails, start() raises to its caller with
\* connection_status set to error and running still false, the heartbeat
\* thread is not started, and from then on the bridge stays that way: it
\* never receives a request, builds no response and counts nothing.
C18_BindFailure ==
    /\ [][ (pc = "init" /\ pc' # "bound" /\ pc' # pc) =>
             /\ pc' = "failed"
             /\ connection_status' = "error"
             /\ running' = FALSE
             /\ monitor' = "none"
         ]_vars
    /\ [][ pc = "failed" => pc' = "failed" ]_vars
    /\ [](pc = "failed" =>
            /\ ~running
            /\ monitor = "none"
            /\ message = NoMessage /\ response = NoResponse /\ answers = 0
            /\ stats = [ signals_sent |-> 0, signals_received |-> 0,
                         errors |-> 0, reconnections |-> 0 ])

\* C18 witness: the bind has failed, start() has raised, and a signal queued
\* by the producer stays pending with no loop to serve it.
C18_Witness ==
    /\ pc = "failed"
    /\ connection_status = "error"
    /\ ~running
    /\ Len(queue) = 1

\* s is an element of the sequence q
InSeq(s, q) == \E i \in 1..Len(q) : q[i] = s

\* C19 (checked under SpecBridge): a request whose processing raises or
\* builds an ERROR response leaves queue, history and dedup set as they
\* were; and when the sending of a response raised, the signals that
\* response carries are still pending and not in the history.
C19_ErrorPathsKeepStore ==
    /\ [][ (pc = "process" /\ (pc' = "except" \/ response'.status = "ERROR"))
            => UNCHANGED storeVars
         ]_vars
    /\ []((pc = "except" /\ "signals" \in DOMAIN response) =>
            \A i \in 1..Len(response.signals) :
               /\ InSeq(response.signals[i], queue)
               /\ ~InSeq(response.signals[i], history))

(***************************************************************************)
(* add_signal and get_signals statement by statement: a producer thread    *)
(* in add_signal while the request-loop thread is in get_signals.  No lock *)
(* is taken by either, so the other thread can run between any two         *)
(* statements.                                                             *)
(***************************************************************************)
\* add_signal, lines 133-143: the three checks
add_signal_check(s) ==
    /\ add_pc = "idle"
    /\ IF AddCheck(s, queue, processed_signals, max_queue_size).ok
       THEN add_pc' = "append" /\ adding' = Some(s)
       ELSE UNCHANGED << add_pc, adding >>
    /\ UNCHANGED << take_pc, take_count, take_signals, callers >>
    /\ UNCHANGED << storeVars, logVars, obsVars, valVars, bridgeVars >>

\* add_signal, line 146: self.queue.append(signal)
add_signal_append ==
    /\ add_pc = "append"
    /\ queue' = Append(queue, Val(adding))
    /\ add_pc' = "mark"
    /\ UNCHANGED << history, processed_signals, max_queue_size, max_history >>
    /\ UNCHANGED << adding, take_pc, take_count, take_signals, callers >>
    /\ UNCHANGED << logVars, obsVars, valVars, bridgeVars >>

\* add_signal, lines 147-149: the id marked seen, (True, None) returned
add_signal_mark ==
    /\ add_pc = "mark"
    /\ processed_signals' = processed_signals \cup { Val(adding).signal_id }
    /\ accepted' = Append(accepted, Val(adding).signal_id)
    /\ add_pc' = "idle"
    /\ adding' = None
    /\ UNCHANGED << queue, history, max_queue_size, max_history, taken >>
    /\ UNCHANGED << take_pc, take_count, take_signals, callers >>
    /\ UNCHANGED << obsVars, valVars, bridgeVars >>

\* get_signals, line 162 or 165: signals = self.queue.copy() or
\* self.queue[:count]
get_signals_read(count) ==
    /\ take_pc = "idle"
    /\ take_count' = count
    /\ take_signals' = TakeSignals(queue, count)
    /\ take_pc' = "remove"
    /\ UNCHANGED << add_pc, adding, callers >>
    /\ UNCHANGED << storeVars, logVars, obsVars, valVars, bridgeVars >>

\* get_signals, line 163 or 166: self.queue.clear() or
\* self.queue = self.queue[count:]
get_signals_remove ==
    /\ take_pc = "remove"
    /\ queue' = TakeRest(queue, take_count)
    /\ take_pc' = "extend"
    /\ UNCHANGED << history, processed_signals, max_queue_size, max_history >>
    /\ UNCHANGED << add_pc, adding, take_count, take_signals, callers >>
    /\ UNCHANGED << logVars, obsVars, valVars, bridgeVars >>

\* get_signals, line 169: self.history.extend(signals)
get_signals_extend ==
    /\ take_pc = "extend"
    /\ history' = history \o take_signals
    /\ take_pc' = "trim"
    /\ UNCHANGED << queue, processed_signals, max_queue_size, max_history >>
    /\ UNCHANGED << add_pc, adding, take_count, take_signals, callers >>
    /\ UNCHANGED << logVars, obsVars, valVars, bridgeVars >>

\* get_signals, lines 172-175: the history trimmed, signals returned
get_signals_trim ==
    /\ take_pc = "trim"
    /\ history' = TrimHistory(history, max_history)
    /\ taken' = taken \o take_signals
    /\ take_pc' = "idle"
    /\ take_count' = None
    /\ take_signals' = << >>
    /\ UNCHANGED << queue, processed_signals, max_queue_size, max_history, accepted >>
    /\ UNCHANGED << add_pc, adding, callers >>
    /\ UNCHANGED << obsVars, valVars, bridgeVars >>

ThreadCounts == { None, Some(1) }

AddCheckStep == \E s \in StoreSignals : add_signal_check(s)
TakeReadStep == \E c \in ThreadCounts : get_signals_read(c)

InitT ==
    /\ InitStore({ MaxQueueSize }, { MaxHistory })
    /\ InitValidate({ TradeSignal("EURUSD", BUY, 1, None, None, 1) })
    /\ InitBridge

NextT ==
    \/ AddCheckStep
    \/ add_signal_append
    \/ add_signal_mark
    \/ TakeReadStep
    \/ get_signals_remove
    \/ get_signals_extend
    \/ get_signals_trim

SpecThreads == InitT /\ [][NextT]_vars

\* the number of signals in q that carry the id
Occurrences(id, q) == Cardinality({ i \in 1..Len(q) : q[i].signal_id = id })

\* C20 (checked under SpecThreads): whenever neither thread is inside a
\* store operation, every accepted signal is either pending or was returned
\* by exactly one take, and never both.
C20_NoLossNoDuplicate ==
    (add_pc = "idle" /\ take_pc = "idle") =>
      \A i \in 1..Len(accepted) :
        Occurrences(accepted[i], queue) + Occurrences(accepted[i], taken) = 1

(***************************************************************************)
(* Several threads calling send_signal at once, each executing add_signal  *)
(* statement by statement, with no lock.                                   *)
(***************************************************************************)
\* add_signal in thread p, lines 133-143: the three checks
send_signal_check(p, s) ==
    /\ callers[p].pc = "idle"
    /\ callers' =
         IF AddCheck(s, queue, processed_signals, max_queue_size).ok
         THEN [ callers EXCEPT ![p] = [ pc |-> "append", adding |-> Some(s) ] ]
         ELSE callers
    /\ UNCHANGED << add_pc, adding, take_pc, take_count, take_signals >>
    /\ UNCHANGED << storeVars, logVars, obsVars, valVars, bridgeVars >>

\* add_signal in thread p, line 146: self.queue.append(signal)
send_signal_append(p) ==
    /\ callers[p].pc = "append"
    /\ queue' = Append(queue, Val(callers[p].adding))
    /\ callers' = [ callers EXCEPT ![p].pc = "mark" ]
    /\ UNCHANGED << history, processed_signals, max_queue_size, max_history >>
    /\ UNCHANGED << add_pc, adding, take_pc, take_count, take_signals >>
    /\ UNCHANGED << logVars, obsVars, valVars, bridgeVars >>

\* add_signal in thread p, lines 147-149: the id marked seen, (True, None)
\* returned
send_signal_mark(p) ==
    /\ callers[p].pc = "mark"
    /\ processed_signals' =
         processed_signals \cup { Val(callers[p].adding).signal_id }
    /\ accepted' = Append(accepted, Val(callers[p].adding).signal_id)
    /\ callers' = [ callers EXCEPT ![p] = [ pc |-> "idle", adding |-> None ] ]
    /\ UNCHANGED << queue, history, max_queue_size, max_history, taken >>
    /\ UNCHANGED << add_pc, adding, take_pc, take_count, take_signals >>
    /\ UNCHANGED << obsVars, valVars, bridgeVars >>

CallerCheckStep ==
    \E p \in Producers : \E s \in StoreSignals : send_signal_check(p, s)
CallerAppendStep == \E p \in Producers : send_signal_append(p)
CallerMarkStep == \E p \in Producers : send_signal_mark(p)

InitP ==
    /\ InitStore(1..MaxQueueSize, { MaxHistory })
    /\ InitValidate({ TradeSignal("EURUSD", BUY, 1, None, None, 1) })
    /\ InitBridge

NextP ==
    \/ CallerCheckStep
    \/ CallerAppendStep
    \/ CallerMarkStep

SpecProducers == InitP /\ [][NextP]_vars

\* C21 (checked under SpecProducers): no id is accepted twice, and the
\* queue never holds more than max_queue_size signals.
C21_ConcurrentAddsAtomic ==
    /\ NoRepeat(accepted)
    /\ Len(queue) <= max_queue_size

(***************************************************************************)
(* send_signal observed: a producer calling send_signal while the bridge   *)
(* goes through its life (never started, listening, connected, degraded by *)
(* the monitor, stopped), with what each call returned recorded in lastOp. *)
(***************************************************************************)
\* send_signal returning (True, None) whatever add_signal returned
send_signal_result_ok(s, q, seen, N) == Valid

\* send_signal, lines 206 and 211: success, error = add_signal(signal);
\* return success, error
send_signal_result(s, q, seen, N) == AddCheck(s, q, seen, N)

\* the signals the producer offers: a valid one and one that fails validation
SendSignals == { GoodSignal(1), BadSignal(1) }

SendSignalCall ==
    \E s \in SendSignals :
      LET r == send_signal_result(s, queue, processed_signals, max_queue_size) IN
      /\ add_signal(s)
      /\ Observe([ op |-> "send_signal", signal |-> Some(s), count |-> None,
                   ok |-> r.ok, reason |-> r.reason, signals |-> << >> ])
      /\ UNCHANGED << valVars, bridgeVars >>

\* the clock passing the heartbeat timeout in one step
ElapseTimeout ==
    /\ now + heartbeat_timeout + 1 <= MaxClock
    /\ now' = now + heartbeat_timeout + 1
    /\ UNCHANGED << sessionVars, loopVars, lifeVars >>
    /\ UNCHANGED << storeVars, logVars, obsVars, valVars, threadVars >>

SendPayloads ==
    { Request(JsonStr(a), Absent) : a \in { GET_SIGNALS, HEARTBEAT } }

RecvStepS == \E m \in SendPayloads : Recv(m)

NextS ==
    \/ Start
    \/ RecvStepS
    \/ RecvRaises
    \/ LoopExit
    \/ Process
    \/ Send
    \/ Except
    \/ MonitorHead
    \/ monitor_heartbeat
    \/ ElapseTimeout
    \/ stop
    \/ SendSignalCall

SpecSend == InitB /\ [][NextS]_vars

\* C22 (checked under SpecSend): send_signal can be called in every state
\* of the bridge; it returns the pair add_signal returns for that signal in
\* that store, changes queue and dedup set as add_signal does, and leaves
\* running, connection_status, last_heartbeat, the counters, the clock, the
\* request loop and the threads of the bridge as they were; signals_sent is
\* 0 as long as no GET_SIGNALS has returned a signal.
C22_SendSignalLocal ==
    /\ [][ SendSignalCall =>
             LET s == Val(lastOp'.signal)
                 r == AddCheck(s, queue, processed_signals, max_queue_size)
             IN  /\ lastOp'.op = "send_signal"
                 /\ lastOp'.ok = r.ok /\ lastOp'.reason = r.reason
                 /\ queue' = IF r.ok THEN Append(queue, s) ELSE queue
                 /\ processed_signals' =
                      IF r.ok THEN processed_signals \cup { s.signal_id }
                              ELSE processed_signals
                 /\ UNCHANGED << history, max_queue_size, max_history >>
                 /\ UNCHANGED << sessionVars, now, loopVars, lifeVars >>
         ]_vars
    /\ [](ENABLED SendSignalCall)
    /\ [](Len(taken) = 0 => stats.signals_sent = 0)

\* C22 witness: on a bridge the monitor has degraded to disconnected, a
\* send_signal was accepted, its signal is pending and signals_sent is 0.
C22_Witness ==
    /\ connection_status = "disconnected" /\ warned
    /\ lastOp.op = "send_signal" /\ lastOp.ok
    /\ prevOp.op = "send_signal" /\ ~prevOp.ok
    /\ Len(queue) = 1
    /\ stats.signals_sent = 0

(***************************************************************************)
(* get_history observed: the store of Spec with a reader calling           *)
(* get_history(limit) between the adds, takes and clears.                  *)
(***************************************************************************)
\* get_history, lines 195-197
get_history(h, limit) ==
    IF limit = None THEN h
    ELSE IF Val(limit) > 0 THEN SliceFrom(h, 0 - Val(limit))
    ELSE << >>

HistoryStep ==
    \E limit \in Counts :
      /\ Observe([ op |-> "history", signal |-> None, count |-> limit,
                   ok |-> TRUE, reason |-> None,
                   signals |-> get_history(history, limit) ])
      /\ UNCHANGED << storeVars, logVars, valVars, bridgeVars, threadVars >>

NextHist == AddStep \/ TakeStep \/ ClearStep \/ HistoryStep

SpecHistory == Init /\ [][NextHist]_vars

Reverse(seq) == [ i \in 1..Len(seq) |-> seq[Len(seq) + 1 - i] ]

\* C23 (checked under SpecHistory): get_history(limit) returns the
\* min(limit, len(history)) most recently taken signals, all of them for
\* limit None and none for limit 0, ordered most recent first, and leaves
\* queue, history, dedup set and caps as they were.
C23_HistoryMostRecentFirst ==
    [][ (HistoryStep /\ (lastOp'.count = None \/ Val(lastOp'.count) >= 0)) =>
          LET n == IF lastOp'.count = None THEN Len(history)
                   ELSE Min(Val(lastOp'.count), Len(history))
          IN  /\ lastOp'.signals = Reverse(LastN(history, n))
              /\ UNCHANGED storeVars
      ]_vars

(***************************************************************************)
(* TradeSignal with all its fields: construction (__post_init__) and the   *)
(* conversions to and from dict and JSON.  A datetime is                   *)
(* << "datetime", sec, usec >>, the instant 2024-01-01T00:00:sec.usec; a   *)
(* str value in a dict is << "str", characters >>.                         *)
(***************************************************************************)
datetime(sec, usec) == << "datetime", sec, usec >>
Text(chars) == << "str", chars >>

\* int(self.timestamp.timestamp()): seconds since the epoch, truncated
int_timestamp(ts) == 1704067200 + ts[2]

\* an id that leaves the timestamp out
derived_id_noTime(sym, act, ts) == sym \o "_" \o Join(act)

\* f"{self.symbol}_{self.action}_{int(self.timestamp.timestamp())}"
derived_id(sym, act, ts) ==
    sym \o "_" \o Join(act) \o "_" \o ToString(int_timestamp(ts))

\* __post_init__ filling in the id even when one was given
post_init_alwaysDerive(s, clock) ==
    LET ts == IF s.timestamp = None THEN clock ELSE Val(s.timestamp) IN
    [ s EXCEPT !.timestamp = ts,
               !.signal_id = derived_id(s.symbol, s.action, ts) ]

\* __post_init__, lines 33-38: the constructor arguments (timestamp and
\* signal_id optional) become the fields of the signal
post_init(s, clock) ==
    LET ts == IF s.timestamp = None THEN clock ELSE Val(s.timestamp) IN
    [ s EXCEPT !.timestamp = ts,
               !.signal_id = IF s.signal_id = None
                             THEN derived_id(s.symbol, s.action, ts)
                             ELSE Val(s.signal_id) ]

DatePrefix ==
    << "2","0","2","4","-","0","1","-","0","1","T","0","0",":","0","0",":" >>

Digits(n, width) ==
    [ i \in 1..width |-> ToString((n \div (10 ^ (width - i))) % 10) ]

DigitVal(c) == CHOOSE d \in 0..9 : ToString(d) = c

RECURSIVE Number(_)
Number(chars) ==
    IF chars = << >> THEN 0
    ELSE 10 * Number(SubSeq(chars, 1, Len(chars) - 1)) + DigitVal(chars[Len(chars)])

\* datetime.isoformat(): the fraction is printed only when microsecond # 0
isoformat(ts) ==
    DatePrefix \o Digits(ts[2], 2)
      \o (IF ts[3] = 0 THEN << >> ELSE << "." >> \o Digits(ts[3], 6))

\* datetime.fromisoformat on the texts isoformat produces
fromisoformat(chars) ==
    datetime(Number(SubSeq(chars, 18, 19)),
             IF Len(chars) > 19 THEN Number(SubSeq(chars, 21, 26)) ELSE 0)

\* to_dict, lines 40-45
to_dict(s) == [ s EXCEPT !.timestamp = Text(isoformat(s.timestamp)) ]

\* the constructor arguments cls(**data) receives from a dict
Arguments(data) ==
    [ data EXCEPT !.timestamp = Some(data.timestamp),
                  !.signal_id = Some(data.signal_id) ]

\* from_dict dropping the stored id, so that the constructor derives one
from_dict_newid(data) ==
    LET ts == IF data.timestamp[1] = "str"
              THEN fromisoformat(data.timestamp[2]) ELSE data.timestamp
    IN  post_init([ data EXCEPT !.timestamp = Some(ts), !.signal_id = None ],
                  datetime(0, 0))

\* from_dict, lines 51-56
from_dict(data) ==
    LET ts == IF data.timestamp[1] = "str"
              THEN fromisoformat(data.timestamp[2]) ELSE data.timestamp
    IN  post_init(Arguments([ data EXCEPT !.timestamp = ts ]), datetime(0, 0))

\* json.dumps and json.loads on the values of a signal's dict: str, int,
\* None
dumps_opt(o) == IF o = None THEN Null ELSE JsonInt(Val(o))
loads_opt(j) == IF j = Null THEN None ELSE Some(j[2])

\* to_json, lines 47-49: json.dumps(self.to_dict())
to_json(s) ==
    LET d == to_dict(s) IN
    [ symbol |-> JsonStr(d.symbol), action |-> JsonStr(d.action),
      broker |-> JsonStr(d.broker), lot_size |-> JsonInt(d.lot_size),
      stop_loss |-> dumps_opt(d.stop_loss),
      take_profit |-> dumps_opt(d.take_profit),
      comment |-> JsonStr(d.comment),
      timestamp |-> JsonStr(d.timestamp[2]),
      signal_id |-> JsonStr(d.signal_id) ]

\* from_json, lines 58-62: from_dict(json.loads(json_str))
from_json(j) ==
    from_dict([ symbol |-> j.symbol[2], action |-> j.action[2],
                broker |-> j.broker[2], lot_size |-> j.lot_size[2],
                stop_loss |-> loads_opt(j.stop_loss),
                take_profit |-> loads_opt(j.take_profit),
                comment |-> j.comment[2],
                timestamp |-> Text(j.timestamp[2]),
                signal_id |-> j.signal_id[2] ])

\* the signals serialized: with and without stop loss, take profit, comment,
\* explicit id and explicit timestamp (with and without microseconds)
Timestamps == { datetime(sec, usec) : sec \in 0..MaxTime, usec \in { 0, 500 } }

SerialSignals ==
    { post_init([ symbol |-> sym, action |-> act, broker |-> "EXNESS",
                  lot_size |-> 1, stop_loss |-> sl, take_profit |-> tp,
                  comment |-> c, timestamp |-> ts, signal_id |-> id ],
                datetime(MaxTime, 0)) :
        sym \in { "EURUSD", "EUR_X" },
        act \in { BUY, << "s","e","l","l" >> },
        sl \in { None, Some(1) }, tp \in { None, Some(2) },
        c \in { "", "x" },
        ts \in { None } \cup { Some(d) : d \in Timestamps },
        id \in { None, Some("x") } }

RoundTripStep ==
    /\ vres = None
    /\ vres' = Some([ dict |-> from_dict(to_dict(sig)),
                      json |-> from_json(to_json(sig)),
                      text |-> to_dict(sig).timestamp ])
    /\ UNCHANGED << sig, storeVars, logVars, obsVars, bridgeVars, threadVars >>

InitR ==
    /\ InitStore({ MaxQueueSize }, { MaxHistory })
    /\ InitValidate(SerialSignals)
    /\ InitBridge

NextR == RoundTripStep

SpecRoundTrip == InitR /\ [][NextR]_vars

IsDigit(c) == \E d \in 0..9 : ToString(d) = c

\* YYYY-MM-DDTHH:MM:SS, followed by .ffffff or by nothing
IsIsoText(v) ==
    /\ v[1] = "str"
    /\ LET chars == v[2] IN
       /\ Len(chars) \in { 19, 26 }
       /\ SubSeq(chars, 1, 17) = DatePrefix
       /\ IsDigit(chars[18]) /\ IsDigit(chars[19])
       /\ Len(chars) = 26 =>
            /\ chars[20] = "."
            /\ \A i \in 21..26 : IsDigit(chars[i])

\* C24 (checked under SpecRoundTrip): from_dict(to_dict(s)) and
\* from_json(to_json(s)) equal s in every field, the id being the one s had
\* and not a derived one, and the dict carries the timestamp as ISO text.
C24_RoundTrip ==
    vres # None =>
      /\ Val(vres).dict = sig
      /\ Val(vres).json = sig
      /\ Val(vres).dict.signal_id = sig.signal_id
      /\ Val(vres).json.timestamp = sig.timestamp
      /\ IsIsoText(Val(vres).text)

\* C24 witness: a signal with an explicit id and a timestamp with
\* microseconds went through both round trips.
C24_Witness ==
    /\ vres # None
    /\ sig.signal_id = "x"
    /\ sig.timestamp = datetime(1, 500)
    /\ Len(Val(vres).text[2]) = 26
    /\ Val(vres).json.signal_id = "x"

(***************************************************************************)
(* Rejected adds.                                                          *)
(***************************************************************************)
\* C25 (checked under Spec): an add that is rejected leaves queue, history
\* and dedup set as they were and marks no id seen; after a rejection for
\* capacity the id is not in the dedup set, and the same signal passes the
\* checks of add_signal in every store a take leaves with room in the queue.
C25_RejectedAddChangesNothing ==
    [][ (lastOp'.op = "add" /\ ~lastOp'.ok) =>
          LET s == Val(lastOp'.signal) IN
          /\ queue' = queue /\ history' = history
          /\ processed_signals' = processed_signals
          /\ s.signal_id \in processed_signals' =>
               s.signal_id \in processed_signals
          /\ lastOp'.reason = Some("Queue is full") =>
               /\ s.signal_id \notin processed_signals'
               /\ \A c \in Counts :
                    Len(TakeRest(queue', c)) < max_queue_size =>
                      AddCheck(s, TakeRest(queue', c), processed_signals',
                               max_queue_size).ok
      ]_vars

\* C25 witness: a valid signal with an unseen id was rejected because the
\* queue was full, and the signal pending before it is still the only one.
C25_Witness ==
    /\ lastOp.op = "add" /\ lastOp.reason = Some("Queue is full")
    /\ max_queue_size = 1 /\ Len(queue) = 1
    /\ Val(lastOp.signal).signal_id \notin processed_signals
    /\ queue[1].signal_id # Val(lastOp.signal).signal_id

(***************************************************************************)
(* The store offered signals whose lot size or stop loss is not a number.  *)
(***************************************************************************)
FloatSignals ==
    { GoodSignal(1), BadSignal(2),
      TradeSignal("EURUSD", BUY, NaN, Some(1), Some(2), 3),
      TradeSignal("EURUSD", SELL, 1, Some(NaN), Some(1), 4) }

AddFloatStep ==
    \E s \in FloatSignals :
      LET r == AddCheck(s, queue, processed_signals, max_queue_size) IN
      /\ add_signal(s)
      /\ Observe([ op |-> "add", signal |-> Some(s), count |-> None,
                   ok |-> r.ok, reason |-> r.reason, signals |-> << >> ])
      /\ UNCHANGED << valVars, bridgeVars >>

NextF == AddFloatStep \/ TakeStep \/ ClearStep

SpecFloat == Init /\ [][NextF]_vars

\* the field constraints a stored signal is claimed to satisfy
SatisfiesConstraints(s) ==
    /\ Len(s.symbol) >= 3
    /\ s.action \in TradeAction
    /\ FloatGt(s.lot_size, 0)
    /\ s.stop_loss # None => FloatGt(Val(s.stop_loss), 0)
    /\ s.take_profit # None => FloatGt(Val(s.take_profit), 0)
    /\ (s.action = BUY /\ s.stop_loss # None /\ s.take_profit # None)
         => FloatLt(Val(s.stop_loss), Val(s.take_profit))
    /\ (s.action = SELL /\ s.stop_loss # None /\ s.take_profit # None)
         => FloatGt(Val(s.stop_loss), Val(s.take_profit))

\* C26 (checked under SpecFloat): every signal in the queue, in history or
\* returned by a take has a symbol of at least 3 characters, an action among
\* BUY, SELL, CLOSE, MODIFY, a lot size > 0, positive stop loss and take
\* profit when present, stop loss < take profit for BUY and stop loss > take
\* profit for SELL.
C26_StoredSignalsValid ==
    /\ \A i \in 1..Len(queue) : SatisfiesConstraints(queue[i])
    /\ \A i \in 1..Len(history) : SatisfiesConstraints(history[i])
    /\ \A i \in 1..Len(taken) : SatisfiesConstraints(taken[i])

(***************************************************************************)
(* The status after stop().                                                *)
(***************************************************************************)
\* C27 (checked under SpecSend, where the bridge is stopped while requests
\* are in flight and while the monitor sleeps): once connection_status is
\* stopped, no step of the request loop handling a request and no poll of
\* the heartbeat monitor changes it.
C27_StoppedIsTerminal ==
    [][ (connection_status = "stopped" /\ (Process \/ monitor_heartbeat))
          => connection_status' = "stopped" ]_vars

(***************************************************************************)
(* Derived ids in the store: a producer constructing signals without an    *)
(* explicit id, so that __post_init__ derives it, and adding them; takes   *)
(* in between.                                                             *)
(***************************************************************************)
X_BUY == << "X","_","B","U","Y" >>

\* (second, microsecond, lot size) of the signals constructed
IdVariants == { << 0, 0, 1 >>, << 0, 500, 1 >>, << 0, 500, 0 >>, << 1, 0, 1 >> }

\* (symbol, action) of the signals constructed
IdPairs == { << "EUR", BUY >>, << "EUR_X", BUY >>, << "EUR", X_BUY >> }

IdSignals ==
    { post_init([ symbol |-> p[1], action |-> p[2], broker |-> "EXNESS",
                  lot_size |-> v[3], stop_loss |-> None, take_profit |-> None,
                  comment |-> "", timestamp |-> Some(datetime(v[1], v[2])),
                  signal_id |-> None ],
                datetime(0, 0)) :
        p \in IdPairs, v \in IdVariants }

AddIdStep ==
    \E s \in IdSignals :
      LET r == AddCheck(s, queue, processed_signals, max_queue_size) IN
      /\ add_signal(s)
      /\ Observe([ op |-> "add", signal |-> Some(s), count |-> None,
                   ok |-> r.ok, reason |-> r.reason, signals |-> << >> ])
      /\ UNCHANGED << valVars, bridgeVars >>

InitI ==
    /\ InitStore({ MaxQueueSize }, { MaxHistory })
    /\ InitValidate({ TradeSignal("EURUSD", BUY, 1, None, None, 1) })
    /\ InitBridge

NextI == AddIdStep \/ TakeStep

SpecIds == InitI /\ [][NextI]_vars

\* the signals accepted so far (nothing is cleared under SpecIds)
AcceptedSignals ==
    { queue[i] : i \in 1..Len(queue) } \cup { taken[i] : i \in 1..Len(taken) }

SameTriple(a, b) ==
    /\ a.symbol = b.symbol
    /\ a.action = b.action
    /\ int_timestamp(a.timestamp) = int_timestamp(b.timestamp)

\* C28 (as claimed, checked under SpecIds): a signal offered to the store
\* and a signal accepted earlier have equal ids exactly when they agree on
\* symbol, action and second; a valid signal that agrees with a different
\* accepted one on the three is rejected as duplicate; and a signal is
\* rejected as duplicate only if it agrees on the three with an accepted
\* one.
C28_IdIsTriple ==
    [][ lastOp'.op = "add" =>
          LET s == Val(lastOp'.signal) IN
          /\ \A q \in AcceptedSignals :
               (q.signal_id = s.signal_id) <=> SameTriple(q, s)
          /\ \A q \in AcceptedSignals :
               (SameTriple(q, s) /\ q # s /\ validate(s).ok)
                 => lastOp'.reason = Some("Duplicate signal")
          /\ lastOp'.reason = Some("Duplicate signal")
               => \E q \in AcceptedSignals : SameTriple(q, s)
      ]_vars

\* C28 (amended): the same, with the equivalence of ids and triples stated
\* for offered signals whose action is BUY, SELL, CLOSE or MODIFY in any
\* case.
C28_IdIsTripleOfKnownActions ==
    [][ lastOp'.op = "add" =>
          LET s == Val(lastOp'.signal) IN
          /\ s.signal_id = derived_id(s.symbol, s.action, s.timestamp)
          /\ \A q \in AcceptedSignals :
               Upper(s.action) \in TradeAction =>
                 ((q.signal_id = s.signal_id) <=> SameTriple(q, s))
          /\ \A q \in AcceptedSignals :
               (SameTriple(q, s) /\ q # s /\ validate(s).ok)
                 => lastOp'.reason = Some("Duplicate signal")
          /\ lastOp'.reason = Some("Duplicate signal")
               => \E q \in AcceptedSignals : SameTriple(q, s)
      ]_vars

\* C28 witness: a signal created in the same second as an accepted one for
\* the same symbol and action, half a millisecond later, was rejected as
\* duplicate.
C28_Witness ==
    /\ lastOp.op = "add" /\ lastOp.reason = Some("Duplicate signal")
    /\ Val(lastOp.signal).timestamp = datetime(0, 500)
    /\ \E q \in AcceptedSignals :
         /\ SameTriple(q, Val(lastOp.signal))
         /\ q.timestamp = datetime(0, 0)

(***************************************************************************)
(* The dedup set.                                                          *)
(***************************************************************************)
IdSet(seq) == { seq[i].signal_id : i \in 1..Len(seq) }

\* the ids of the signals that were accepted and then discarded by a clear
Discarded == processed_signals \ (IdSet(queue) \cup IdSet(taken))

\* C29 (checked under Spec): no step removes an id from the dedup set; the
\* set contains the id of every signal in the queue and in history; clear
\* empties the queue and leaves history and the set as they were; and an id
\* discarded by a clear stays discarded: it never enters the queue again,
\* is never returned by a take and never reaches history.
C29_DedupSetOnlyGrows ==
    /\ [][ processed_signals \subseteq processed_signals' ]_vars
    /\ [](IdSet(queue) \cup IdSet(history) \subseteq processed_signals)
    /\ [][ lastOp'.op = "clear" =>
             /\ queue' = << >>
             /\ history' = history
             /\ processed_signals' = processed_signals ]_vars
    /\ [][ /\ Discarded \subseteq Discarded'
           /\ \A id \in Discarded :
                /\ id \notin IdSet(history')
                /\ lastOp'.op = "add" /\ Val(lastOp'.signal).signal_id = id
                     => ~lastOp'.ok
                /\ lastOp'.op = "take"
                     => id \notin IdSet(lastOp'.signals) ]_vars

\* C29 witness: a signal was accepted and cleared before any take, and its
\* resubmission under the same id was rejected as duplicate with room in
\* the queue and nothing in history.
C29_Witness ==
    /\ lastOp.op = "add" /\ lastOp.reason = Some("Duplicate signal")
    /\ Val(lastOp.signal).signal_id \in Discarded
    /\ validate(Val(lastOp.signal)).ok
    /\ Len(queue) < max_queue_size
    /\ history = << >>

(***************************************************************************)
(* What each RPC action changes.                                           *)
(***************************************************************************)
\* C30 (checked under SpecBridge): when _process_request handles a request,
\* HEARTBEAT and SEND_STATUS set last_heartbeat to the current time and
\* connection_status to connected and change nothing else; GET_BRIDGE_STATUS
\* changes neither store nor session and reports the current
\* connection_status, queue size, counters and last_heartbeat; and a request
\* that changes the store or a counter is a GET_SIGNALS.
C30_OnlyGetSignalsMutates ==
    [][ (pc = "process" /\ pc' = "send" /\ message.json = "object") =>
          /\ message.action \in { JsonStr(HEARTBEAT), JsonStr(SEND_STATUS) } =>
               /\ UNCHANGED << storeVars, stats, running >>
               /\ last_heartbeat' = Some(now)
               /\ connection_status' = "connected"
               /\ response'.status = "OK"
          /\ message.action = JsonStr(GET_BRIDGE_STATUS) =>
               /\ UNCHANGED << storeVars, sessionVars >>
               /\ response' = [ status |-> "OK",
                                connection_status |-> connection_status,
                                queue_size |-> Len(queue),
                                stats |-> stats,
                                last_heartbeat |-> last_heartbeat ]
          /\ (storeVars' # storeVars \/ stats' # stats) => IsGetSignalsReq(message)
      ]_vars

\* C30 witness: GET_BRIDGE_STATUS was handled on a connected bridge that has
\* delivered one signal and holds another, and reports exactly that.
C30_Witness ==
    /\ pc = "send"
    /\ message = Request(JsonStr(GET_BRIDGE_STATUS), Absent)
    /\ response.status = "OK"
    /\ response.connection_status = "connected"
    /\ response.queue_size = 1 /\ Len(queue) = 1
    /\ response.stats.signals_sent = 1
    /\ response.last_heartbeat = last_heartbeat /\ last_heartbeat # None
====
